---- MODULE Spec2Model ----
(***************************************************************************)
(* Model of the three Lambda functions of terraform-modules:               *)
(*   security_alert_email_handler.py  (SNS finding -> SES e-mail)          *)
(*   security_alert_slack_handler.py  (SNS finding -> Slack webhook)       *)
(*   waf_log_router.py                (Firehose record partitioning)       *)
(*                                                                         *)
(* The handlers are taken as loaded by an interpreter that accepts them    *)
(* (the e-mail handler nests backslashes in f-string expressions, which    *)
(* Python 3.12 and later accept).  One behaviour is one invocation.        *)
(*                                                                         *)
(* JSON / Python values are tagged records:                                *)
(*   [t |-> "null"]                     None                               *)
(*   [t |-> "num",  n |-> 7]            int                                *)
(*   [t |-> "str",  s |-> "text"]       str whose characters do not matter *)
(*   [t |-> "str",  c |-> <<"h","i">>]  str given character by character   *)
(*   [t |-> "str",  json |-> v]         str holding the JSON text of v     *)
(*   [t |-> "str",  fmt |-> <<a, b>>]   the f-string "{a} ({b})"           *)
(*   [t |-> "str",  b64 |-> b]          str holding the base64 text of b   *)
(*   [t |-> "bytes", json |-> v]        bytes holding the JSON text of v   *)
(*   [t |-> "bytes", raw |-> "..."]     bytes that are not JSON text       *)
(*   [t |-> "arr",  a |-> <<...>>]      list                               *)
(*   [t |-> "obj",  o |-> <<<<k, v>>, ...>>]  dict, as key/value pairs     *)
(***************************************************************************)
EXTENDS Integers, Sequences, FiniteSets, TLC

VARIABLES
    channel,      \* "email" | "chat" | "idle": which handler this invocation runs
    event,        \* the inbound event handed to lambda_handler
    cfg,          \* process environment: FROM_EMAIL, TO_EMAILS, SLACK_WEBHOOK_URL
    transportOk,  \* whether the external transport accepts a well-formed request
    pc,           \* position of the invocation inside lambda_handler
    message,      \* json.loads(sns["Message"])
    nf,           \* the locals set by the normalisation block
    payload,      \* what the renderer produced
    result,       \* the value lambda_handler returned
    escaped,      \* the exception that left lambda_handler uncaught, if any
    calls,        \* transport calls made (SES send_email / urlopen)
    log,          \* the steps executed, in order
    revent,       \* waf_log_router: the Firehose event handed to lambda_handler
    records,      \* waf_log_router: event.get("records", [])
    rpc,          \* waf_log_router: position
    idx,          \* waf_log_router: loop index
    output,       \* waf_log_router: output list
    rEscaped      \* waf_log_router: exception that left lambda_handler

hvars == <<channel, event, cfg, transportOk, pc, message, nf, payload, result,
           escaped, calls, log>>
rvars == <<revent, records, rpc, idx, output, rEscaped>>
vars == <<channel, event, cfg, transportOk, pc, message, nf, payload, result,
          escaped, calls, log, revent, records, rpc, idx, output, rEscaped>>

----------------------------------------------------------------------------
(* Bounds of the model *)
MaxResources == 2
MaxBatch == 2

----------------------------------------------------------------------------
(* JSON values *)
Null == [t |-> "null"]
Absent == [t |-> "absent"]
Num(n) == [t |-> "num", n |-> n]
Str(s) == [t |-> "str", s |-> s]
Chars(c) == [t |-> "str", c |-> c]
JsonText(v) == [t |-> "str", json |-> v]
Fmt(a, b) == [t |-> "str", fmt |-> <<a, b>>]
Arr(a) == [t |-> "arr", a |-> a]
MkObj(pairs) == [t |-> "obj", o |-> SelectSeq(pairs, LAMBDA p : p[2] # Absent)]
EmptyObj == [t |-> "obj", o |-> <<>>]
EmptyArr == Arr(<<>>)

HasKey(x, k) == \E i \in DOMAIN x.o : x.o[i][1] = k
ValueOf(x, k) == x.o[CHOOSE i \in DOMAIN x.o : x.o[i][1] = k][2]

(* Outcome of evaluating a Python expression: a value or a raised exception *)
R(v) == [ok |-> TRUE, v |-> v, type |-> "none", text |-> <<>>]
Raise(type, text) == [ok |-> FALSE, v |-> Null, type |-> type, text |-> text]
Quote(k) == <<"'", k, "'">>

IsEmptyStr(x) ==
    \/ "s" \in DOMAIN x /\ x.s = ""
    \/ "c" \in DOMAIN x /\ x.c = <<>>

(* bool(x) *)
PyBool(x) ==
    CASE x.t = "null" -> FALSE
      [] x.t = "num" -> x.n # 0
      [] x.t = "str" -> ~IsEmptyStr(x)
      [] x.t = "arr" -> Len(x.a) > 0
      [] x.t = "obj" -> Len(x.o) > 0

(* x.get(k, d): only dict has .get *)
PyGet(x, k, d) ==
    IF x.t = "obj"
    THEN R(IF HasKey(x, k) THEN ValueOf(x, k) ELSE d)
    ELSE Raise("AttributeError", <<x.t, "object has no attribute 'get'">>)

(* r.get(k, d) on the outcome of an earlier .get in the same expression *)
ThenGet(r, k, d) == IF r.ok THEN PyGet(r.v, k, d) ELSE r

(* x[k] for a string key *)
PyItem(x, k) ==
    CASE x.t = "obj" ->
           IF HasKey(x, k) THEN R(ValueOf(x, k)) ELSE Raise("KeyError", Quote(k))
      [] x.t = "arr" -> Raise("TypeError", <<"list indices must be integers or slices, not str">>)
      [] x.t = "str" -> Raise("TypeError", <<"string indices must be integers">>)
      [] OTHER -> Raise("TypeError", <<x.t, "object is not subscriptable">>)

(* x[0] *)
PyFirst(x) ==
    CASE x.t = "arr" ->
           IF Len(x.a) > 0 THEN R(x.a[1])
           ELSE Raise("IndexError", <<"list index out of range">>)
      [] x.t = "obj" -> Raise("KeyError", <<"0">>)
      [] x.t = "str" ->
           IF IsEmptyStr(x) THEN Raise("IndexError", <<"string index out of range">>)
           ELSE R(IF "c" \in DOMAIN x THEN Chars(<<x.c[1]>>) ELSE x)
      [] OTHER -> Raise("TypeError", <<x.t, "object is not subscriptable">>)

(* whether the characters k occur consecutively in c *)
SubSeqOf(k, c) ==
    \E i \in 0..(Len(c) - Len(k)) : \A j \in 1..Len(k) : c[i + j] = k[j]

(* k in x, k a str of known characters kc whose whole text is ks *)
PyIn(ks, kc, x) ==
    CASE x.t = "obj" -> R(HasKey(x, ks))
      [] x.t = "arr" -> R(\E i \in DOMAIN x.a : x.a[i] = Str(ks))
      [] x.t = "str" ->
           R(IF "c" \in DOMAIN x THEN SubSeqOf(kc, x.c)
             ELSE "s" \in DOMAIN x /\ x.s = ks)
      [] OTHER -> Raise("TypeError", <<"argument of type", x.t, "is not iterable">>)

(* the items a for-loop over x visits *)
PyIter(x) ==
    CASE x.t = "arr" -> R(x.a)
      [] x.t = "obj" -> R([i \in DOMAIN x.o |-> Str(x.o[i][1])])
      [] x.t = "str" ->
           R(IF "c" \in DOMAIN x THEN [i \in DOMAIN x.c |-> Chars(<<x.c[i]>>)]
             ELSE IF IsEmptyStr(x) THEN <<>> ELSE <<x>>)
      [] OTHER -> Raise("TypeError", <<x.t, "object is not iterable">>)

(* json.loads(x) *)
JsonLoads(x) ==
    IF x.t \notin {"str", "bytes"}
    THEN Raise("TypeError", <<"the JSON object must be str, bytes or bytearray, not", x.t>>)
    ELSE IF "json" \in DOMAIN x THEN R(x.json)
    ELSE Raise("JSONDecodeError", <<"Expecting value: line 1 column 1 (char 0)">>)

(* str.upper(), character by character *)
UpperChar(ch) ==
    CASE ch = "a" -> "A" [] ch = "b" -> "B" [] ch = "c" -> "C" [] ch = "d" -> "D"
      [] ch = "e" -> "E" [] ch = "g" -> "G" [] ch = "h" -> "H" [] ch = "i" -> "I"
      [] ch = "k" -> "K" [] ch = "l" -> "L" [] ch = "m" -> "M" [] ch = "n" -> "N"
      [] ch = "o" -> "O" [] ch = "r" -> "R" [] ch = "t" -> "T" [] ch = "u" -> "U"
      [] ch = "w" -> "W"
      [] OTHER -> ch
Upper(c) == [i \in DOMAIN c |-> UpperChar(c[i])]

(* str(x) as characters *)
Digit(n) ==
    CASE n = 0 -> "0" [] n = 1 -> "1" [] n = 2 -> "2" [] n = 3 -> "3" [] n = 4 -> "4"
      [] n = 5 -> "5" [] n = 6 -> "6" [] n = 7 -> "7" [] n = 8 -> "8" [] n = 9 -> "9"
PyStr(x) ==
    CASE x.t = "str" /\ "c" \in DOMAIN x -> x.c
      [] x.t = "num" -> <<Digit(x.n)>>
      [] x.t = "null" -> <<"N", "o", "n", "e">>
      [] x.t = "arr" -> <<"[", "]">>
      [] x.t = "obj" -> <<"{", "}">>
      [] x.t = "str" /\ "s" \in DOMAIN x -> <<x.s>>
      [] OTHER -> <<"<", "s", "t", "r", ">">>

----------------------------------------------------------------------------
(* Text used by the handlers, character by character where case matters *)
UNKNOWN == <<"U", "N", "K", "N", "O", "W", "N">>
CRITICAL == <<"C", "R", "I", "T", "I", "C", "A", "L">>
HIGH == <<"H", "I", "G", "H">>
MEDIUM == <<"M", "E", "D", "I", "U", "M">>
LOW == <<"L", "O", "W">>
INFORMATIONAL == <<"I", "N", "F", "O", "R", "M", "A", "T", "I", "O", "N", "A", "L">>
FindingsKey == <<"f", "i", "n", "d", "i", "n", "g", "s">>
NameKey == <<"N", "a", "m", "e">>
Ec2Type == Str("AWS::EC2::Instance")

ALLOWED_SEVERITIES == {CRITICAL, HIGH}

SEVERITY_COLOR(sev) ==
    CASE sev = CRITICAL -> "#8B0000"
      [] sev = HIGH -> "#FF0000"
      [] sev = MEDIUM -> "#FFA500"
      [] sev = LOW -> "#FFFF00"
      [] sev = INFORMATIONAL -> "#439FE0"
      [] OTHER -> "#CCCCCC"

SeverityEmoji(sev) == IF sev = CRITICAL THEN "red_circle" ELSE "orange_circle"

(* the first exception raised by a sequence of statements, R(Null) if none *)
FirstFailure(stmts) ==
    IF \A i \in DOMAIN stmts : stmts[i].ok THEN R(Null)
    ELSE stmts[CHOOSE i \in DOMAIN stmts :
                 /\ ~stmts[i].ok
                 /\ \A j \in 1..(i - 1) : stmts[j].ok]

(* "# Defaults": the locals before any finding is read *)
Defaults(account, region) ==
    [title |-> Str("Security Finding"),
     severity |-> Chars(UNKNOWN),
     product |-> Str("Security Hub"),
     account |-> account,
     region |-> region,
     resource |-> Str("Unknown"),
     description |-> Str(""),
     console_url |-> Str("https://console.aws.amazon.com/securityhub/home"),
     created_at |-> Null,
     types |-> EmptyArr,
     threats |-> EmptyArr,
     remediation |-> Str("")]

(* value or "UNKNOWN" *)
OrUnknown(v) == IF PyBool(v) THEN v ELSE Chars(UNKNOWN)

(* tags = r.get("Tags", {}); if "Name" in tags: f"{tags['Name']} ({resource})" *)
WithNameTag(r, resource) ==
    LET tags == PyGet(r, "Tags", EmptyObj)
        named == IF tags.ok THEN PyIn("Name", NameKey, tags.v) ELSE tags
        name == PyItem(tags.v, "Name")
    IN  IF ~named.ok THEN named
        ELSE IF ~named.v THEN R(resource)
        ELSE IF ~name.ok THEN name
        ELSE R(Fmt(name.v, resource))

(* a loop that takes the first listed resource whatever its type *)
FirstListed(rs, i, resource) ==
    IF i > Len(rs) THEN R(resource)
    ELSE LET ty == PyGet(rs[i], "type", Null)
         IN  IF ~ty.ok THEN ty
             ELSE WithNameTag(rs[i], PyGet(rs[i], "uid", resource).v)

(* for r in finding.get("resources", []): first EC2 instance, then break *)
RECURSIVE Ec2Loop(_, _, _)
Ec2Loop(rs, i, resource) ==
    IF i > Len(rs) THEN R(resource)
    ELSE LET ty == PyGet(rs[i], "type", Null)
         IN  IF ~ty.ok THEN ty
             ELSE IF ty.v = Ec2Type
                  THEN WithNameTag(rs[i], PyGet(rs[i], "uid", resource).v)
                  ELSE Ec2Loop(rs, i + 1, resource)

ResourceStructured(finding, resource) ==
    LET it == PyIter(PyGet(finding, "resources", EmptyArr).v)
    IN  IF it.ok THEN Ec2Loop(it.v, 1, resource) ELSE it

(* resources = finding.get("Resources", []); if resources: resources[0] ... *)
ResourceClassic(finding, resource) ==
    LET resources == PyGet(finding, "Resources", EmptyArr).v
        first == PyFirst(resources)
        id == ThenGet(first, "Id", resource)
    IN  IF ~PyBool(resources) THEN R(resource)
        ELSE IF ~id.ok THEN id
        ELSE WithNameTag(first.v, id.v)

(* "# Remediation": read by the e-mail handler only *)
Remediation(ch, finding) ==
    LET info == PyGet(finding, "Remediation", EmptyObj).v
    IN  IF ch = "email" /\ PyBool(info)
        THEN ThenGet(PyGet(info, "Recommendation", EmptyObj), "Text", Str(""))
        ELSE R(Str(""))

(* the branch  if "finding_info" in finding  *)
NormalizeStructured(ch, finding, d) ==
    LET desc == ThenGet(PyGet(finding, "finding_info", EmptyObj), "desc", Str(""))
        cloud == PyGet(finding, "cloud", EmptyObj)
        acct == ThenGet(ThenGet(cloud, "account", EmptyObj), "uid", d.account)
        regn == ThenGet(cloud, "region", d.region)
        prod == ThenGet(ThenGet(PyGet(finding, "metadata", EmptyObj), "product", EmptyObj),
                        "name", d.product)
        rem == Remediation(ch, finding)
        res == ResourceStructured(finding, d.resource)
    IN  [exc |-> FirstFailure(<<desc, acct, regn, prod, rem, res>>),
         sevSet |-> TRUE,
         variant |-> "structured",
         f |-> [title |-> PyGet(finding, "title", d.title).v,
                severity |-> OrUnknown(PyGet(finding, "severity", d.severity).v),
                product |-> prod.v,
                account |-> acct.v,
                region |-> regn.v,
                resource |-> res.v,
                description |-> desc.v,
                console_url |-> d.console_url,
                created_at |-> PyGet(finding, "created_time_dt", Null).v,
                types |-> PyGet(finding, "types", EmptyArr).v,
                threats |-> PyGet(finding, "Threats", EmptyArr).v,
                remediation |-> rem.v]]

(* the branch  else  ("Classic ASFF") *)
NormalizeClassic(ch, finding, d) ==
    LET sev == ThenGet(PyGet(finding, "Severity", EmptyObj), "Label", d.severity)
        rem == Remediation(ch, finding)
        res == ResourceClassic(finding, d.resource)
    IN  [exc |-> FirstFailure(<<sev, rem, res>>),
         sevSet |-> sev.ok,
         variant |-> "classic",
         f |-> [title |-> PyGet(finding, "Title", d.title).v,
                severity |-> OrUnknown(sev.v),
                product |-> PyGet(finding, "ProductName", d.product).v,
                account |-> PyGet(finding, "AwsAccountId", d.account).v,
                region |-> PyGet(finding, "Region", d.region).v,
                resource |-> res.v,
                description |-> PyGet(finding, "Description", Str("")).v,
                console_url |-> d.console_url,
                created_at |-> PyGet(finding, "CreatedAt", Null).v,
                types |-> PyGet(finding, "Types", EmptyArr).v,
                threats |-> PyGet(finding, "Threats", EmptyArr).v,
                remediation |-> rem.v]]

(* nothing was read from a finding: the defaults stand *)
NoFinding(exc, d) == [exc |-> exc, sevSet |-> FALSE, variant |-> "none", f |-> d]

(* finding = message["detail"]["findings"][0] and what follows *)
NormalizeFinding(ch, msg, d) ==
    LET findings == PyItem(ValueOf(msg, "detail"), "findings")
        finding == IF findings.ok THEN PyFirst(findings.v) ELSE findings
        url == ThenGet(finding, "SourceUrl", d.console_url)
        d2 == [d EXCEPT !.console_url = url.v]
    IN  IF ~url.ok THEN NoFinding(url, d)
        ELSE IF HasKey(finding.v, "finding_info")
             THEN NormalizeStructured(ch, finding.v, d2)
             ELSE NormalizeClassic(ch, finding.v, d2)

(* lambda_handler from "# Defaults" to the end of the findings block *)
Normalize(ch, msg) ==
    LET account == PyGet(msg, "account", Str("Unknown"))
        region == PyGet(msg, "region", Str("Unknown"))
        d == Defaults(account.v, region.v)
        present == IF HasKey(msg, "detail")
                   THEN PyIn("findings", FindingsKey, ValueOf(msg, "detail"))
                   ELSE R(FALSE)
    IN  IF ~account.ok THEN NoFinding(account, d)
        ELSE IF ~present.ok THEN NoFinding(present, d)
        ELSE IF ~present.v THEN NoFinding(R(Null), d)
        ELSE NormalizeFinding(ch, msg, d)


----------------------------------------------------------------------------
(* Process configuration *)

(* str.split(","): the pieces of c between commas *)
RECURSIVE Split(_)
Split(c) ==
    IF \A i \in DOMAIN c : c[i] # ","
    THEN <<c>>
    ELSE LET k == CHOOSE i \in DOMAIN c :
                    c[i] = "," /\ \A j \in 1..(i - 1) : c[j] # ","
         IN  <<SubSeq(c, 1, k - 1)>> \o Split(SubSeq(c, k + 1, Len(c)))

IsSpace(ch) == ch \in {" ", "\t", "\n", "\r"}

(* str.strip() *)
RECURSIVE Strip(_)
Strip(c) ==
    IF c = <<>> THEN c
    ELSE IF IsSpace(c[1]) THEN Strip(Tail(c))
    ELSE IF IsSpace(c[Len(c)]) THEN Strip(SubSeq(c, 1, Len(c) - 1))
    ELSE c

(* FROM_EMAIL = os.environ.get("FROM_EMAIL") *)
FROM_EMAIL(env) == env.FROM_EMAIL

(* TO_EMAILS = os.environ.get("TO_EMAILS", "").split(",") *)
TO_EMAILS(env) == Split(IF env.TO_EMAILS = Null THEN <<>> ELSE env.TO_EMAILS.c)

(* SLACK_WEBHOOK_URL = os.environ.get("SLACK_WEBHOOK_URL") *)
SLACK_WEBHOOK_URL(env) == env.SLACK_WEBHOOK_URL

(* CheckConfig without the recipient guard *)
CheckConfigSenderOnly(ch, env) ==
    IF ch = "email"
    THEN IF ~PyBool(FROM_EMAIL(env))
         THEN Raise("Exception", <<"FROM_EMAIL not set">>)
         ELSE R(Null)
    ELSE R(Null)

(* the guards opening send_email / send_to_slack *)
CheckConfig(ch, env) ==
    IF ch = "email"
    THEN IF ~PyBool(FROM_EMAIL(env))
         THEN Raise("Exception", <<"FROM_EMAIL not set">>)
         ELSE IF Len(TO_EMAILS(env)) = 0 \/ TO_EMAILS(env)[1] = <<>>
              THEN Raise("Exception", <<"TO_EMAILS not set">>)
              ELSE R(Null)
    ELSE IF ~PyBool(SLACK_WEBHOOK_URL(env))
         THEN Raise("Exception", <<"SLACK_WEBHOOK_URL not set">>)
         ELSE R(Null)

(* [email.strip() for email in TO_EMAILS if email.strip()] *)
ToAddresses(env) ==
    LET stripped == [i \in DOMAIN TO_EMAILS(env) |-> Strip(TO_EMAILS(env)[i])]
    IN  SelectSeq(stripped, LAMBDA e : e # <<>>)

----------------------------------------------------------------------------
(* The steps of lambda_handler *)

(* sns = event["Records"][0]["Sns"]; message = json.loads(sns["Message"]) *)
ParseEvent(ev) ==
    LET recs == PyItem(ev, "Records")
        first == IF recs.ok THEN PyFirst(recs.v) ELSE recs
        sns == IF first.ok THEN PyItem(first.v, "Sns") ELSE first
        msg == IF sns.ok THEN PyItem(sns.v, "Message") ELSE sns
    IN  IF msg.ok THEN JsonLoads(msg.v) ELSE msg

(* except Exception as e: return {"status": "error", "error": str(e)} *)
ErrorResult(exc) == [status |-> "error", error |-> exc.text]

(* an except clause that names KeyError only *)
UnwrapCatchesKeyError(exc) == exc.type = "KeyError"

(* try/except around the unwrap step: every exception is turned into a result *)
UnwrapCatches(exc) == TRUE

(* normalized_sev = str(severity).upper() *)
NormalizedSev(severity) == Upper(PyStr(severity))

(* if normalized_sev not in ALLOWED_SEVERITIES: return suppressed *)
Suppresses(severity) == NormalizedSev(severity) \notin ALLOWED_SEVERITIES

(* return {"status": "suppressed", "severity": severity} *)
SuppressedResult(severity) == [status |-> "suppressed", severity |-> severity]

(* title[:80] *)
Slice80(title) ==
    IF title.t \in {"str", "arr"} THEN R(title)
    ELSE Raise("TypeError", <<title.t, "object is not subscriptable">>)

(* send_email: color, emoji, bodies and subject, all from its severity argument *)
RenderEmail(f, normalized_sev) ==
    LET subject == Slice80(f.title)
    IN  IF ~subject.ok THEN subject
        ELSE R([kind |-> "email",
                color |-> SEVERITY_COLOR(normalized_sev),
                emoji |-> SeverityEmoji(normalized_sev),
                severity |-> normalized_sev,
                fields |-> f])

(* slack handler: color and emoji from normalized_sev, text from severity *)
RenderChat(f, normalized_sev) ==
    R([kind |-> "chat",
       color |-> SEVERITY_COLOR(normalized_sev),
       emoji |-> SeverityEmoji(normalized_sev),
       severity |-> PyStr(f.severity),
       fields |-> f])

Render(ch, f) ==
    IF ch = "email" THEN RenderEmail(f, NormalizedSev(f.severity))
    ELSE RenderChat(f, NormalizedSev(f.severity))

(* ses_client.send_email(...) / urllib.request.urlopen(req) *)
TransportCall(ch, env) ==
    IF ch = "email"
    THEN [kind |-> "ses", source |-> FROM_EMAIL(env), to |-> ToAddresses(env)]
    ELSE [kind |-> "webhook", source |-> SLACK_WEBHOOK_URL(env), to |-> <<>>]

(* the transport rejects a request without recipients, and fails when it is down *)
TransportOutcome(call, up) ==
    IF up /\ (call.kind = "ses" => Len(call.to) > 0)
    THEN R(Null)
    ELSE Raise("TransportError", <<"transport failure">>)

NoResult == [status |-> "none"]
NoPayload == [kind |-> "none"]
NoNf == NoFinding(R(Null), Defaults(Null, Null))

(* print("=== RECEIVED EVENT ===") ... before the try block *)
Trace ==
    /\ pc = "received"
    /\ pc' = "traced"
    /\ log' = Append(log, "trace")
    /\ UNCHANGED <<channel, event, cfg, transportOk, message, nf, payload, result,
                   escaped, calls>>
    /\ UNCHANGED rvars

(* the try/except block parsing the SNS envelope *)
Unwrap ==
    /\ pc = "traced"
    /\ log' = Append(log, "unwrap")
    /\ LET r == ParseEvent(event)
       IN  IF r.ok
           THEN /\ message' = r.v
                /\ pc' = "unwrapped"
                /\ UNCHANGED <<result, escaped>>
           ELSE /\ pc' = "done"
                /\ UNCHANGED message
                /\ IF UnwrapCatches(r)
                   THEN result' = ErrorResult(r) /\ UNCHANGED escaped
                   ELSE escaped' = r /\ UNCHANGED result
    /\ UNCHANGED <<channel, event, cfg, transportOk, nf, payload, calls>>
    /\ UNCHANGED rvars

(* defaults and the findings block: outside any try *)
NormalizeStep ==
    /\ pc = "unwrapped"
    /\ log' = Append(log, "normalize")
    /\ nf' = Normalize(channel, message)
    /\ IF nf'.exc.ok
       THEN pc' = "normalized" /\ UNCHANGED escaped
       ELSE pc' = "done" /\ escaped' = nf'.exc
    /\ UNCHANGED <<channel, event, cfg, transportOk, message, payload, result, calls>>
    /\ UNCHANGED rvars

(* "# Suppress non-HIGH/CRITICAL severities" *)
Gate ==
    /\ pc = "normalized"
    /\ log' = Append(log, "gate")
    /\ IF Suppresses(nf.f.severity)
       THEN pc' = "done" /\ result' = SuppressedResult(nf.f.severity)
       ELSE pc' = "proceed" /\ UNCHANGED result
    /\ UNCHANGED <<channel, event, cfg, transportOk, message, nf, payload, escaped, calls>>
    /\ UNCHANGED rvars

(* e-mail: first statements of send_email; chat: first statement of send_to_slack,
   which runs after the payload is built *)
ConfigStep ==
    /\ pc = IF channel = "email" THEN "proceed" ELSE "rendered"
    /\ log' = Append(log, "config")
    /\ LET r == CheckConfig(channel, cfg)
       IN  IF r.ok
           THEN pc' = (IF channel = "email" THEN "configured" ELSE "ready")
                /\ UNCHANGED result
           ELSE pc' = "done" /\ result' = ErrorResult(r)
    /\ UNCHANGED <<channel, event, cfg, transportOk, message, nf, payload, escaped, calls>>
    /\ UNCHANGED rvars

(* e-mail: the body of send_email, inside the try; chat: built in lambda_handler *)
RenderStep ==
    /\ pc = IF channel = "email" THEN "configured" ELSE "proceed"
    /\ log' = Append(log, "render")
    /\ LET r == Render(channel, nf.f)
       IN  IF r.ok
           THEN /\ payload' = r.v
                /\ pc' = (IF channel = "email" THEN "ready" ELSE "rendered")
                /\ UNCHANGED result
           ELSE /\ pc' = "done"
                /\ result' = ErrorResult(r)
                /\ UNCHANGED payload
    /\ UNCHANGED <<channel, event, cfg, transportOk, message, nf, escaped, calls>>
    /\ UNCHANGED rvars

(* the transport call and the return / except that follows it *)
Dispatch ==
    /\ pc = "ready"
    /\ log' = Append(log, "transport")
    /\ LET call == TransportCall(channel, cfg)
           r == TransportOutcome(call, transportOk)
       IN  /\ calls' = Append(calls, call)
           /\ result' = (IF r.ok THEN [status |-> "ok"] ELSE ErrorResult(r))
    /\ pc' = "done"
    /\ UNCHANGED <<channel, event, cfg, transportOk, message, nf, payload, escaped>>
    /\ UNCHANGED rvars


----------------------------------------------------------------------------
(* waf_log_router.py *)
B64(b) == [t |-> "str", b64 |-> b]
JsonBytes(v) == [t |-> "bytes", json |-> v]
RawBytes(s) == [t |-> "bytes", raw |-> s]

BLOCK == <<"B", "L", "O", "C", "K">>
ALLOW == <<"A", "L", "L", "O", "W">>

(* base64.b64decode(x); text that is not base64 is rejected here or, decoded to
   garbage, by json.loads: either way inside the same try block *)
B64Decode(x) ==
    IF x.t # "str"
    THEN Raise("TypeError", <<"argument should be a bytes-like object or ASCII string, not", x.t>>)
    ELSE IF "b64" \in DOMAIN x THEN R(x.b64)
    ELSE Raise("binascii.Error", <<"Incorrect padding">>)

(* re.sub(r'[\r\n\t]', ' ', value) *)
SanitizeChar(ch) == IF ch \in {"\r", "\n", "\t"} THEN " " ELSE ch

(* sanitize_log(value): str(value) for a non-string, then the substitution *)
sanitize_log(value) ==
    LET c == PyStr(value)
    IN  [i \in DOMAIN c |-> SanitizeChar(c[i])]

(* x.upper(): only str has it *)
PyUpper(x) ==
    IF x.t = "str"
    THEN R(IF "c" \in DOMAIN x THEN Chars(Upper(x.c)) ELSE x)
    ELSE Raise("AttributeError", <<x.t, "object has no attribute 'upper'">>)

(* the action read without .upper() *)
ActionAsGiven(waf_log) ==
    LET raw == PyGet(waf_log, "action", Chars(ALLOW))
        str == IF raw.ok THEN PyUpper(raw.v) ELSE raw
    IN  IF str.ok THEN R(sanitize_log(raw.v)) ELSE str

(* action = sanitize_log(waf_log.get("action", "ALLOW").upper()) *)
ActionOf(waf_log) ==
    LET raw == PyGet(waf_log, "action", Chars(ALLOW))
        up == IF raw.ok THEN PyUpper(raw.v) ELSE raw
    IN  IF up.ok THEN R(sanitize_log(up.v)) ELSE up

(* log_type = "blocked" if action == "BLOCK" else "allowed" *)
LogType(action) == IF action = BLOCK THEN "blocked" ELSE "allowed"

(* the try block of the loop body: decode, parse, classify *)
Classify(record) ==
    LET data == PyItem(record, "data")
        bytes == IF data.ok THEN B64Decode(data.v) ELSE data
        waf_log == IF bytes.ok THEN JsonLoads(bytes.v) ELSE bytes
        action == IF waf_log.ok THEN ActionOf(waf_log.v) ELSE waf_log
    IN  IF action.ok THEN R(LogType(action.v)) ELSE action

(* the entry appended by the try block *)
OkEntry(record_id, record, log_type) ==
    [recordId |-> record_id, result |-> "Ok", data |-> ValueOf(record, "data"),
     log_type |-> log_type]

(* the entry appended by the except block; record["data"] is read again there *)
FailedEntry(record_id, record) ==
    LET data == PyItem(record, "data")
    IN  IF data.ok
        THEN R([recordId |-> record_id, result |-> "ProcessingFailed", data |-> data.v,
                log_type |-> "none"])
        ELSE data

(* one iteration of  for record in records  *)
ProcessOne(record) ==
    LET id == PyGet(record, "recordId", Chars(<<"u", "n", "k", "n", "o", "w", "n">>))
        record_id == sanitize_log(id.v)
        c == Classify(record)
    IN  IF ~id.ok THEN id
        ELSE IF c.ok THEN R(OkEntry(record_id, record, c.v))
        ELSE FailedEntry(record_id, record)

(* records = event.get("records", []); len(records); iteration order *)
RecordsOf(ev) ==
    LET recs == PyGet(ev, "records", EmptyArr)
    IN  IF ~recs.ok THEN recs
        ELSE IF recs.v.t \in {"null", "num"}
             THEN Raise("TypeError", <<"object of type", recs.v.t, "has no len()">>)
             ELSE PyIter(recs.v)

RouterStart ==
    /\ rpc = "start"
    /\ LET r == RecordsOf(revent)
       IN  IF r.ok
           THEN records' = r.v /\ rpc' = "loop" /\ UNCHANGED rEscaped
           ELSE rEscaped' = r /\ rpc' = "done" /\ UNCHANGED records
    /\ UNCHANGED <<revent, idx, output>>
    /\ UNCHANGED hvars

RouterRecord ==
    /\ rpc = "loop"
    /\ idx <= Len(records)
    /\ LET r == ProcessOne(records[idx])
       IN  IF r.ok
           THEN /\ output' = Append(output, r.v)
                /\ idx' = idx + 1
                /\ UNCHANGED <<rpc, rEscaped>>
           ELSE /\ rEscaped' = r
                /\ rpc' = "done"
                /\ UNCHANGED <<output, idx>>
    /\ UNCHANGED <<revent, records>>
    /\ UNCHANGED hvars

(* return {"records": output} *)
RouterReturn ==
    /\ rpc = "loop"
    /\ idx > Len(records)
    /\ rpc' = "returned"
    /\ UNCHANGED <<revent, records, idx, output, rEscaped>>
    /\ UNCHANGED hvars


----------------------------------------------------------------------------
(* Inputs: the events, configurations and batches the model runs on *)

(* sequences over S of length 0..n *)
SeqsUpTo(S, n) == UNION {[1..k -> S] : k \in 0..n}

Variants == {"structured", "classic"}

SeverityValues ==
    {Absent, Null, Chars(<<>>), Num(7),
     Chars(CRITICAL), Chars(HIGH), Chars(MEDIUM), Chars(LOW), Chars(INFORMATIONAL),
     Chars(<<"h", "i", "g", "h">>), Chars(<<"C", "r", "i", "t", "i", "c", "a", "l">>),
     Chars(<<"m", "e", "d", "i", "u", "m">>), Chars(<<"b", "o", "g", "u", "s">>)}

FewSeverities == {Absent, Chars(HIGH), Chars(<<"h", "i", "g", "h">>), Chars(LOW)}

(* a resource entry in the keys of the variant *)
Resource(v, type, id, tags) ==
    MkObj(<< <<IF v = "structured" THEN "type" ELSE "Type", type>>,
             <<IF v = "structured" THEN "uid" ELSE "Id", id>>,
             <<"Tags", tags>> >>)

NameTag(n) == MkObj(<< <<"Name", Str(n)>> >>)

ResourceShapes(v) ==
    {Resource(v, Ec2Type, Str("i-123"), NameTag("web-1")),
     Resource(v, Ec2Type, Str("i-456"), Absent),
     Resource(v, Str("AWS::S3::Bucket"), Str("b-1"), NameTag("logs")),
     Resource(v, Ec2Type, Str("i-789"), Null),
     Resource(v, Ec2Type, Absent, NameTag("web-2")),
     Str("arn:aws:ec2:i-000")}

ResourceLists(v) ==
    {Arr(rs) : rs \in SeqsUpTo(ResourceShapes(v), MaxResources)}

OddResourceLists == {Absent, Null, Str("i-1"), MkObj(<< <<"k", Null>> >>)}

(* the account/region carriers: cloud object (structured), flat keys (classic) *)
CloudShapes ==
    {Absent, Null,
     MkObj(<< <<"account", MkObj(<< <<"uid", Str("111122223333")>> >>)>>,
              <<"region", Str("eu-west-1")>> >>),
     MkObj(<< <<"account", Null>> >>)}

TitleShapes == {Absent, Str("Open port"), Num(5)}

RemediationShapes ==
    {Absent, Null, Str("patch it"),
     MkObj(<< <<"Recommendation", MkObj(<< <<"Text", Str("Patch")>> >>)>> >>),
     MkObj(<< <<"Recommendation", Null>> >>)}

(* one finding of variant v *)
Finding(v, severity, cloud, title, remediation, resources) ==
    IF v = "structured"
    THEN MkObj(<< <<"finding_info", MkObj(<< <<"desc", Str("X")>> >>)>>,
                  <<"title", title>>,
                  <<"severity", severity>>,
                  <<"cloud", cloud>>,
                  <<"Remediation", remediation>>,
                  <<"resources", resources>> >>)
    ELSE MkObj(<< <<"Title", title>>,
                  <<"Description", Str("X")>>,
                  <<"Severity", IF severity = Absent THEN Absent
                                ELSE MkObj(<< <<"Label", severity>> >>)>>,
                  <<"AwsAccountId", IF cloud = Null THEN Absent ELSE Str("111122223333")>>,
                  <<"Remediation", remediation>>,
                  <<"Resources", resources>> >>)

OneNamedEc2(v) == Arr(<<Resource(v, Ec2Type, Str("i-123"), NameTag("web-1"))>>)

Findings ==
    UNION {
      {Finding(v, sev, Absent, Str("Open port"), Absent, rs) :
          sev \in FewSeverities, rs \in ResourceLists(v) \cup OddResourceLists}
      \cup
      {Finding(v, sev, cloud, title, Absent, OneNamedEc2(v)) :
          sev \in SeverityValues, cloud \in CloudShapes, title \in TitleShapes}
      \cup
      {Finding(v, Chars(HIGH), Absent, Str("Open port"), rem, OneNamedEc2(v)) :
          rem \in RemediationShapes}
      : v \in Variants}
    \cup
    {MkObj(<< <<"finding_info", Null>>, <<"severity", Chars(HIGH)>> >>),
     MkObj(<< <<"Severity", Null>> >>),
     MkObj(<< <<"Severity", Chars(HIGH)>> >>),
     MkObj(<< <<"SourceUrl", Str("https://example/finding")>>,
              <<"Severity", MkObj(<< <<"Label", Chars(CRITICAL)>> >>)>> >>)}

Envelope(account, detail) ==
    MkObj(<< <<"account", account>>,
             <<"region", IF account = Absent THEN Absent ELSE Str("us-east-1")>>,
             <<"detail", detail>> >>)

(* the decoded SNS messages *)
Messages ==
    {Envelope(Str("999988887777"), MkObj(<< <<"findings", Arr(<<f>>)>> >>)) : f \in Findings}
    \cup
    {Envelope(acc, detail) :
        acc \in {Absent, Str("999988887777")},
        detail \in {Absent, Null, EmptyObj, EmptyArr, Num(3),
                    Str("findings"), Chars(FindingsKey), Chars(<<"x">> \o FindingsKey),
                    Arr(<<Str("findings")>>),
                    MkObj(<< <<"source", Str("aws.securityhub")>> >>),
                    MkObj(<< <<"findings", EmptyArr>> >>),
                    MkObj(<< <<"findings", Null>> >>),
                    MkObj(<< <<"findings", Arr(<<Null>>)>> >>),
                    MkObj(<< <<"findings", Arr(<<Str("f")>>)>> >>),
                    MkObj(<< <<"findings", EmptyObj>> >>)}}
    \cup
    {Null, EmptyArr, Str("hello"), Num(1)}

SnsEvent(msg) ==
    MkObj(<< <<"Records", Arr(<<MkObj(<< <<"Sns", MkObj(<< <<"Message", msg>> >>)>> >>)>>)>> >>)

(* events whose envelope cannot be unwrapped *)
EvNoRecords == EmptyObj
EvRecordsNull == MkObj(<< <<"Records", Null>> >>)
EvEmptyRecords == MkObj(<< <<"Records", EmptyArr>> >>)
EvNoSns == MkObj(<< <<"Records", Arr(<<EmptyObj>>)>> >>)
EvNoMessage == MkObj(<< <<"Records", Arr(<<MkObj(<< <<"Sns", EmptyObj>> >>)>>)>> >>)
EvNotJson == SnsEvent(Str("not json"))
EvEmptyMessage == SnsEvent(Chars(<<>>))
EvNullMessage == SnsEvent(Null)

BrokenEvents ==
    {EvNoRecords, EvRecordsNull, EvEmptyRecords, EvNoSns, EvNoMessage,
     EvNotJson, EvEmptyMessage, EvNullMessage}

Events == {SnsEvent(JsonText(m)) : m \in Messages} \cup BrokenEvents

Env(from, to, hook) == [FROM_EMAIL |-> from, TO_EMAILS |-> to, SLACK_WEBHOOK_URL |-> hook]

Sender == Str("alerts@example.com")
Hook == Str("https://hooks.slack.example/T0/B0")

EmailEnvs ==
    {Env(from, Chars(<<"a">>), Null) : from \in {Sender, Null, Str("")}}
    \cup
    {Env(Sender, to, Null) :
        to \in {Null, Chars(<<>>), Chars(<<" ">>), Chars(<<",", "a">>),
                Chars(<<" ", ",">>), Chars(<<"a", ",", " ", "b", " ">>)}}

ChatEnvs == {Env(Null, Null, hook) : hook \in {Hook, Null, Str("")}}

HandlerIdle ==
    /\ channel = "idle"
    /\ event = Null
    /\ cfg = Env(Null, Null, Null)
    /\ transportOk = TRUE
    /\ pc = "idle"
    /\ message = Null
    /\ nf = NoNf
    /\ payload = NoPayload
    /\ result = NoResult
    /\ escaped = R(Null)
    /\ calls = <<>>
    /\ log = <<>>

RouterIdle ==
    /\ revent = Null
    /\ records = <<>>
    /\ rpc = "idle"
    /\ idx = 1
    /\ output = <<>>
    /\ rEscaped = R(Null)

Init ==
    /\ channel \in {"email", "chat"}
    /\ event \in Events
    /\ cfg \in (IF channel = "email" THEN EmailEnvs ELSE ChatEnvs)
    /\ transportOk \in BOOLEAN
    /\ pc = "received"
    /\ message = Null
    /\ nf = NoNf
    /\ payload = NoPayload
    /\ result = NoResult
    /\ escaped = R(Null)
    /\ calls = <<>>
    /\ log = <<>>
    /\ RouterIdle

Next ==
    \/ Trace
    \/ Unwrap
    \/ NormalizeStep
    \/ Gate
    \/ ConfigStep
    \/ RenderStep
    \/ Dispatch

Spec == Init /\ [][Next]_vars

(* Firehose records *)
WafLog(action) == B64(JsonBytes(MkObj(<< <<"action", action>> >>)))

RecordIds == {Chars(<<"r", "1">>), Chars(<<"r", "\n", "2">>), Absent}

Record(id, data) == MkObj(<< <<"recordId", id>>, <<"data", data>> >>)

RecordShapes ==
    {Record(Chars(<<"r", "1">>), d) :
        d \in {WafLog(Chars(BLOCK)), WafLog(Chars(<<"b", "l", "o", "c", "k">>)),
               WafLog(Chars(BLOCK \o <<"\t">>)),
               WafLog(Chars(ALLOW)), WafLog(Chars(<<"C", "O", "U", "N", "T">>)),
               WafLog(Absent), WafLog(Num(1)), WafLog(Null),
               B64(JsonBytes(Arr(<<Str("BLOCK")>>))),
               B64(RawBytes("plain text")),
               Str("%%%"),
               Absent}}
    \cup
    {Record(id, WafLog(Chars(BLOCK))) : id \in RecordIds}
    \cup
    {Null}

RouterEvents ==
    {MkObj(<< <<"records", Arr(rs)>> >>) : rs \in SeqsUpTo(RecordShapes, MaxBatch)}
    \cup
    {EmptyObj, MkObj(<< <<"records", Null>> >>)}

RouterInit ==
    /\ revent \in RouterEvents
    /\ records = <<>>
    /\ rpc = "start"
    /\ idx = 1
    /\ output = <<>>
    /\ rEscaped = R(Null)
    /\ HandlerIdle

RouterNext ==
    \/ RouterStart
    \/ RouterRecord
    \/ RouterReturn

RouterSpec == RouterInit /\ [][RouterNext]_vars


----------------------------------------------------------------------------
(* Properties of the notification handlers *)

Steps == {log[i] : i \in DOMAIN log}
Finished == pc = "done"

(* the gate let the finding through *)
Proceeded == "gate" \in Steps /\ nf.exc.ok /\ ~Suppresses(nf.f.severity)

(* C1: whatever the inbound event, no exception leaves lambda_handler and the
   invocation ends with a result whose status is ok, suppressed or error. *)
C1_NothingEscapes ==
    /\ escaped.ok
    /\ Finished => result.status \in {"ok", "suppressed", "error"}

(* C2: a finding whose severity, upper-cased, is neither CRITICAL nor HIGH ends
   in status suppressed, and no transport call is made during the invocation. *)
C2_LowSeveritySuppressed ==
    (nf.sevSet /\ Suppresses(nf.f.severity)) =>
        /\ calls = <<>>
        /\ Finished => result.status = "suppressed"

(* the part of C2 that does not depend on normalisation completing *)
C2_NoTransportBelowThreshold ==
    (nf.sevSet /\ Suppresses(nf.f.severity)) => calls = <<>>

(* configuration the handler accepts and that names at least one recipient *)
ValidConfig ==
    IF channel = "email"
    THEN /\ cfg.FROM_EMAIL = Sender
         /\ cfg.TO_EMAILS \in {Chars(<<"a">>), Chars(<<"a", ",", " ", "b", " ">>)}
    ELSE cfg.SLACK_WEBHOOK_URL = Hook

(* C3: a finding of either variant whose severity is CRITICAL or HIGH in any
   letter case, with valid configuration and a working transport, ends in
   {"status": "ok"} after exactly one transport call. *)
C3_HighSeverityDelivered ==
    (Finished /\ nf.sevSet /\ ~Suppresses(nf.f.severity) /\ ValidConfig /\ transportOk) =>
        /\ escaped.ok
        /\ result = [status |-> "ok"]
        /\ Len(calls) = 1

(* the unwrapped message carries no finding array under detail.findings *)
HasFindingArray(msg) ==
    /\ msg.t = "obj"
    /\ HasKey(msg, "detail")
    /\ ValueOf(msg, "detail").t = "obj"
    /\ HasKey(ValueOf(msg, "detail"), "findings")
    /\ ValueOf(ValueOf(msg, "detail"), "findings").t = "arr"

(* C4: when the unwrapped message has no finding array, the result is exactly
   {"status": "suppressed", "severity": "UNKNOWN"}, without a transport call. *)
C4_NoFindingsSuppressed ==
    (Finished /\ "normalize" \in Steps /\ ~HasFindingArray(message)) =>
        /\ escaped.ok
        /\ result = [status |-> "suppressed", severity |-> Chars(UNKNOWN)]
        /\ calls = <<>>

(* a delivery-critical setting is unset or empty *)
ConfigMissing ==
    IF channel = "email"
    THEN \/ cfg.FROM_EMAIL \in {Null, Str("")}
         \/ cfg.TO_EMAILS \in {Null, Chars(<<>>)}
    ELSE cfg.SLACK_WEBHOOK_URL \in {Null, Str("")}

(* C5: once the gate let a finding through, a missing sender or recipient setting
   (e-mail) or webhook URL (chat) gives status error without any transport call;
   the e-mail handler has rendered nothing when it reports the error. *)
C5_MissingConfigIsError ==
    (Proceeded /\ ConfigMissing) =>
        /\ calls = <<>>
        /\ escaped.ok
        /\ Finished => result.status = "error"
        /\ channel = "email" => (payload = NoPayload /\ "render" \notin Steps)

C5_Witness ==
    /\ Finished
    /\ Proceeded
    /\ channel = "email"
    /\ cfg.FROM_EMAIL = Sender
    /\ cfg.TO_EMAILS = Null
    /\ result = [status |-> "error", error |-> <<"TO_EMAILS not set">>]

(* str(e) of the error each broken envelope raises *)
UnwrapErrorText(ev) ==
    CASE ev = EvNoRecords -> <<"'", "Records", "'">>
      [] ev = EvRecordsNull -> <<"null", "object is not subscriptable">>
      [] ev = EvEmptyRecords -> <<"list index out of range">>
      [] ev = EvNoSns -> <<"'", "Sns", "'">>
      [] ev = EvNoMessage -> <<"'", "Message", "'">>
      [] ev = EvNotJson -> <<"Expecting value: line 1 column 1 (char 0)">>
      [] ev = EvEmptyMessage -> <<"Expecting value: line 1 column 1 (char 0)">>
      [] ev = EvNullMessage -> <<"the JSON object must be str, bytes or bytearray, not", "null">>

(* C6: an event that cannot be unwrapped ends in {"status": "error", "error":
   <text of the original error>}; nothing was normalised, gated, rendered or
   sent; and the raw-event trace precedes the unwrap step in every invocation. *)
C6_UnwrapFailureIsError ==
    /\ "unwrap" \in Steps => log[1] = "trace"
    /\ (event \in BrokenEvents /\ Finished) =>
          /\ escaped.ok
          /\ result = [status |-> "error", error |-> UnwrapErrorText(event)]
          /\ log = <<"trace", "unwrap">>
          /\ nf = NoNf
          /\ payload = NoPayload
          /\ calls = <<>>

C6_Witness ==
    /\ Finished
    /\ event = EvEmptyRecords
    /\ log = <<"trace", "unwrap">>
    /\ result = [status |-> "error", error |-> <<"list index out of range">>]


(* the finding normalisation read, when it read one *)
TheFinding == ValueOf(ValueOf(message, "detail"), "findings").a[1]

IsEc2(r) == r.t = "obj" /\ HasKey(r, "type") /\ ValueOf(r, "type") = Ec2Type

HasNameTag(r) ==
    /\ HasKey(r, "Tags")
    /\ ValueOf(r, "Tags").t = "obj"
    /\ HasKey(ValueOf(r, "Tags"), "Name")

IdOr(r, key) == IF HasKey(r, key) THEN ValueOf(r, key) ELSE Str("Unknown")

Named(r, key) ==
    IF HasNameTag(r) THEN Fmt(ValueOf(ValueOf(r, "Tags"), "Name"), IdOr(r, key))
    ELSE IdOr(r, key)

ResourcesOf(finding, key) ==
    IF HasKey(finding, key) /\ ValueOf(finding, key).t = "arr"
    THEN ValueOf(finding, key).a
    ELSE <<>>

FirstEc2(rs) == CHOOSE i \in DOMAIN rs : IsEc2(rs[i]) /\ \A j \in 1..(i - 1) : ~IsEc2(rs[j])

(* the rule as the specification words it, for both variants: the first
   EC2-instance-typed entry with a Name tag gives "{name} ({id})", otherwise the
   bare identifier of the first listed resource *)
RuleAsWorded(rs, typeKey, idKey) ==
    LET ec2 == {i \in DOMAIN rs :
                  rs[i].t = "obj" /\ HasKey(rs[i], typeKey) /\ ValueOf(rs[i], typeKey) = Ec2Type}
        first == CHOOSE i \in ec2 : \A j \in ec2 : i <= j
    IN  IF ec2 # {} /\ HasNameTag(rs[first]) THEN Named(rs[first], idKey)
        ELSE IF rs = <<>> THEN Str("Unknown")
        ELSE IdOr(rs[1], idKey)

(* the rule as each variant resolves it: structured looks at the first
   EC2-instance-typed entry only and keeps "Unknown" without one; classic looks at
   the first listed entry whatever its type *)
RuleAsCoded(variant, rs) ==
    IF variant = "structured"
    THEN IF \E i \in DOMAIN rs : IsEc2(rs[i]) THEN Named(rs[FirstEc2(rs)], "uid")
         ELSE Str("Unknown")
    ELSE IF rs = <<>> THEN Str("Unknown") ELSE Named(rs[1], "Id")

Resolved == "normalize" \in Steps /\ nf.exc.ok /\ nf.variant # "none"

(* C9 as worded: in both variants an EC2-instance-typed entry with a Name tag
   resolves to "{name} ({id})" and anything else to the bare identifier of the
   first listed resource. *)
C9_ResourceRuleAsWorded ==
    Resolved =>
        nf.f.resource =
            IF nf.variant = "structured"
            THEN RuleAsWorded(ResourcesOf(TheFinding, "resources"), "type", "uid")
            ELSE RuleAsWorded(ResourcesOf(TheFinding, "Resources"), "Type", "Id")

(* C9 amended: structured resolves from the first EC2-instance-typed entry
   ("{Name} ({uid})" with a Name tag, else its uid) and stays "Unknown" when no
   entry is EC2-typed; classic resolves from the first listed entry whatever its
   type ("{Name} ({Id})" with a Name tag, else its Id). *)
C9_ResourceRuleAsCoded ==
    Resolved =>
        nf.f.resource =
            RuleAsCoded(nf.variant,
                        ResourcesOf(TheFinding,
                                    IF nf.variant = "structured" THEN "resources"
                                    ELSE "Resources"))

C9_Witness ==
    /\ Resolved
    /\ nf.variant = "structured"
    /\ Len(ResourcesOf(TheFinding, "resources")) = 2
    /\ ~IsEc2(ResourcesOf(TheFinding, "resources")[1])
    /\ nf.f.resource = Fmt(Str("web-1"), Str("i-123"))

(* C10 as worded: a suppressed result carries the severity as extracted (null or
   empty first coerced to UNKNOWN), and whatever is rendered after the gate shows
   the upper-cased severity. *)
C10_GateSeverity ==
    /\ result.status = "suppressed" =>
          /\ result.severity = nf.f.severity
          /\ PyBool(result.severity)
          /\ NormalizedSev(result.severity) \notin {CRITICAL, HIGH}
    /\ payload # NoPayload => payload.severity = Upper(PyStr(nf.f.severity))

(* the part of C10 about the suppressed result alone *)
C10_SuppressedKeepsOriginal ==
    result.status = "suppressed" =>
        /\ result.severity = nf.f.severity
        /\ PyBool(result.severity)
        /\ NormalizedSev(result.severity) \notin {CRITICAL, HIGH}

(* the handler of the other channel, run on the same event *)
Other(ch) == IF ch = "email" THEN "chat" ELSE "email"
PeerUnwrap == ParseEvent(event)
PeerNf == Normalize(Other(channel), message)
PeerRender == Render(Other(channel), PeerNf.f)

(* the fields both handlers normalise (remediation is the e-mail handler's own) *)
SharedFields(f) ==
    [title |-> f.title, severity |-> f.severity, product |-> f.product,
     account |-> f.account, region |-> f.region, resource |-> f.resource,
     description |-> f.description, types |-> f.types, threats |-> f.threats,
     console_url |-> f.console_url, created_at |-> f.created_at]

(* what the gate does with a normalisation outcome *)
GateDecision(n) ==
    IF ~n.exc.ok THEN [status |-> "raised"]
    ELSE IF Suppresses(n.f.severity) THEN SuppressedResult(n.f.severity)
    ELSE [status |-> "proceed"]

(* severity value, accent colour and marker glyph of a rendered alert *)
Look(p) == [severity |-> p.severity, color |-> p.color, emoji |-> p.emoji]

(* C11: on every inbound event the e-mail handler and the chat handler have the
   same unwrap outcome, the same normalised field values, the same gate decision
   (both suppress with the same severity, or both proceed), and render the alert
   with the same severity value, accent colour and marker glyph. *)
C11_HandlersAgree ==
    /\ "unwrap" \in Steps =>
          IF PeerUnwrap.ok
          THEN message = PeerUnwrap.v /\ result.status # "error"
          ELSE result = ErrorResult(PeerUnwrap)
    /\ "normalize" \in Steps =>
          /\ nf.exc.ok = PeerNf.exc.ok
          /\ (nf.exc.ok /\ PeerNf.exc.ok) =>
                SharedFields(nf.f) = SharedFields(PeerNf.f)
          /\ GateDecision(nf) = GateDecision(PeerNf)
    /\ (payload # NoPayload /\ PeerNf.exc.ok /\ PeerRender.ok) =>
          Look(payload) = Look(PeerRender.v)

(* the part of C11 that holds: whenever both normalisations complete, the shared
   fields and the gate decision are the same, and so are the accent colour and
   the marker glyph of what is rendered *)
C11_AgreeWhenBothNormalize ==
    ("normalize" \in Steps /\ nf.exc.ok /\ PeerNf.exc.ok) =>
        /\ SharedFields(nf.f) = SharedFields(PeerNf.f)
        /\ GateDecision(nf) = GateDecision(PeerNf)
        /\ (payload # NoPayload /\ PeerRender.ok) =>
              /\ payload.color = PeerRender.v.color
              /\ payload.emoji = PeerRender.v.emoji

(* position of a step in the pipeline; the configuration guard and the rendering
   both lie between the gate and the transport call (e-mail checks the
   configuration first, chat renders first) *)
Rank(step) ==
    CASE step = "trace" -> 1
      [] step = "unwrap" -> 2
      [] step = "normalize" -> 3
      [] step = "gate" -> 4
      [] step \in {"config", "render"} -> 5
      [] step = "transport" -> 6

(* the steps taken so far are an initial part of the pipeline, none twice; a
   failure after the gate counts as DispatchFailed whether or not the payload
   had been rendered *)
InPipelineOrder ==
    /\ log # <<>> => log[1] = "trace"
    /\ \A i \in DOMAIN log : \A j \in DOMAIN log :
          i < j => (log[i] # log[j] /\ Rank(log[i]) <= Rank(log[j]))
    /\ \A i \in 1..(Len(log) - 1) : Rank(log[i + 1]) <= Rank(log[i]) + 1
    /\ "transport" \in Steps => ({"config", "render"} \subseteq Steps /\ payload # NoPayload)

(* the four terminal states, read off the finished invocation *)
InTerminal(s) ==
    /\ Finished
    /\ escaped.ok
    /\ CASE s = "ParseFailed" ->
              log = <<"trace", "unwrap">> /\ result.status = "error"
         [] s = "Suppressed" ->
              log = <<"trace", "unwrap", "normalize", "gate">>
              /\ result.status = "suppressed"
         [] s = "Dispatched" ->
              log[Len(log)] = "transport" /\ result = [status |-> "ok"]
         [] s = "DispatchFailed" ->
              Len(log) > 4 /\ result.status = "error"

TerminalStates ==
    {s \in {"ParseFailed", "Suppressed", "Dispatched", "DispatchFailed"} : InTerminal(s)}

(* a transport call is made only after the gate let the finding proceed, at most
   once, and a failed call is not repeated: the result is the error it raised *)
OneCallNoRetry ==
    /\ calls # <<>> => (Proceeded /\ "transport" \in Steps)
    /\ Len(calls) <= 1
    /\ (Finished /\ calls # <<>>) =>
          LET r == TransportOutcome(calls[1], transportOk)
          IN  result = IF r.ok THEN [status |-> "ok"] ELSE ErrorResult(r)

(* C12: every invocation follows the pipeline order Received, Unwrapped, then
   ParseFailed or Normalized, then Suppressed or Rendered, then Dispatched or
   DispatchFailed, and ends in exactly one terminal state (ParseFailed -> error,
   Suppressed -> suppressed, Dispatched -> ok, DispatchFailed -> error); a
   transport call happens only after the gate let the finding proceed, at most
   once per invocation, and a transport failure is not retried but returned as
   error with its description. *)
C12_PipelineEndsInTerminal ==
    /\ InPipelineOrder
    /\ OneCallNoRetry
    /\ Finished => Cardinality(TerminalStates) = 1

(* the part of C12 that holds: the order of the steps, the single transport
   call after the gate, no retry, and one terminal state whenever the
   invocation returns a result *)
C12_OrderedSingleCall ==
    /\ InPipelineOrder
    /\ OneCallNoRetry
    /\ Cardinality(TerminalStates) <= 1
    /\ (Finished /\ escaped.ok) => Cardinality(TerminalStates) = 1

(* a sample of invocations on which progress is checked *)
LiveFindings ==
    {Finding(v, sev, cloud, Str("Open port"), Absent, OneNamedEc2(v)) :
        v \in Variants, sev \in {Chars(HIGH), Chars(LOW)}, cloud \in {Absent, Null}}

LiveEvents ==
    {SnsEvent(JsonText(Envelope(Str("999988887777"),
                                MkObj(<< <<"findings", Arr(<<f>>)>> >>)))) : f \in LiveFindings}
    \cup {SnsEvent(JsonText(Envelope(Absent, Absent)))}
    \cup BrokenEvents

LiveEnvs == {Env(Sender, Chars(<<"a">>), Null), Env(Sender, Null, Null), Env(Null, Null, Hook)}

LiveInit == Init /\ event \in LiveEvents /\ cfg \in LiveEnvs

(* lambda_handler is one synchronous call: a step that can be taken is taken *)
LiveSpec == LiveInit /\ [][Next]_vars /\ WF_vars(Next)

(* every invocation comes to an end, with a result or with an escaped exception *)
C12_EveryInvocationEnds == <>Finished


(* an address with something in it besides white space *)
NonBlank(c) == \E i \in DOMAIN c : ~IsSpace(c[i])
Trimmed(c) == c # <<>> /\ ~IsSpace(c[1]) /\ ~IsSpace(c[Len(c)])

(* the recipient setting names at least one usable address *)
HasUsableRecipient(env) ==
    \E i \in DOMAIN TO_EMAILS(env) : NonBlank(TO_EMAILS(env)[i])

RecipientsRejected == result = [status |-> "error", error |-> <<"TO_EMAILS not set">>]

(* C13: whenever the e-mail handler calls the mail transport, the recipient list
   it passes is non-empty and holds only non-blank, trimmed addresses, whatever
   the comma-separated recipient setting; and the recipient check rejects the
   configuration only when the setting names no usable address. *)
C13_RecipientsUsable ==
    channel = "email" =>
        /\ \A k \in DOMAIN calls :
              /\ calls[k].to # <<>>
              /\ \A i \in DOMAIN calls[k].to : Trimmed(calls[k].to[i])
        /\ RecipientsRejected => ~HasUsableRecipient(cfg)

(* the part of C13 that holds: every address handed to the mail transport is
   non-blank and trimmed, and a setting without any usable address never gets a
   message delivered *)
C13_AddressesTrimmed ==
    channel = "email" =>
        /\ \A k \in DOMAIN calls :
              \A i \in DOMAIN calls[k].to : Trimmed(calls[k].to[i])
        /\ result.status = "ok" => HasUsableRecipient(cfg)


----------------------------------------------------------------------------
(* Properties of the log router *)

RouterEnded == rpc \in {"returned", "done"}

(* the batch handed in, when the event carries a list of records (or none) *)
IsBatch(ev) ==
    /\ ev.t = "obj"
    /\ HasKey(ev, "records") => ValueOf(ev, "records").t = "arr"

InputRecords == IF HasKey(revent, "records") THEN ValueOf(revent, "records").a ELSE <<>>

(* C7: the output has one entry per input record, in order, each carrying that
   record's original recordId and its data unchanged, whatever went wrong with
   any single record. *)
C7_OnePerRecordPassThrough ==
    (RouterEnded /\ IsBatch(revent) /\ \A i \in DOMAIN InputRecords : InputRecords[i].t = "obj") =>
        /\ rEscaped.ok
        /\ Len(output) = Len(InputRecords)
        /\ \A i \in DOMAIN output :
              LET rec == InputRecords[i]
              IN  /\ HasKey(rec, "recordId") => output[i].recordId = ValueOf(rec, "recordId").c
                  /\ HasKey(rec, "data") => output[i].data = ValueOf(rec, "data")

(* what holds of the entries that are produced: the data is passed through *)
C7_DataPassedThrough ==
    \A i \in DOMAIN output :
        /\ i <= Len(records)
        /\ output[i].data = ValueOf(records[i], "data")

(* the record's data decodes to a JSON object *)
DecodesToObject(rec) ==
    /\ rec.t = "obj"
    /\ HasKey(rec, "data")
    /\ "b64" \in DOMAIN ValueOf(rec, "data")
    /\ "json" \in DOMAIN ValueOf(rec, "data").b64
    /\ ValueOf(rec, "data").b64.json.t = "obj"

WafLogOf(rec) == ValueOf(rec, "data").b64.json

(* C8 as worded: log_type is blocked exactly when the decoded action is the
   string "BLOCK"; every other action, missing or differently cased, gives
   allowed; the result is Ok. *)
C8_BlockedIffExactlyBlock ==
    \A i \in DOMAIN output :
        DecodesToObject(records[i]) =>
            /\ output[i].result = "Ok"
            /\ output[i].log_type = "blocked" <=>
                  (/\ HasKey(WafLogOf(records[i]), "action")
                   /\ ValueOf(WafLogOf(records[i]), "action") = Chars(BLOCK))
            /\ output[i].log_type \in {"blocked", "allowed"}

(* C8 amended: with the action missing or a string, the result is Ok and
   log_type is blocked exactly when the upper-cased action is "BLOCK" (so "block"
   is blocked), allowed otherwise; an action that is not a string makes the
   record ProcessingFailed. *)
C8_BlockedIffUpperCasedBlock ==
    \A i \in DOMAIN output :
        DecodesToObject(records[i]) =>
            LET waf_log == WafLogOf(records[i])
                given == HasKey(waf_log, "action")
                action == ValueOf(waf_log, "action")
            IN  IF given /\ action.t # "str"
                THEN output[i].result = "ProcessingFailed" /\ output[i].log_type = "none"
                ELSE /\ output[i].result = "Ok"
                     /\ output[i].log_type =
                           IF given /\ Upper(action.c) = BLOCK THEN "blocked" ELSE "allowed"

C8_Witness ==
    /\ rpc = "returned"
    /\ Len(output) = 2
    /\ DecodesToObject(records[1])
    /\ DecodesToObject(records[2])
    /\ HasKey(WafLogOf(records[1]), "action")
    /\ ValueOf(WafLogOf(records[1]), "action") = Chars(<<"b", "l", "o", "c", "k">>)
    /\ output[1].result = "Ok"
    /\ output[1].log_type = "blocked"
    /\ ~HasKey(WafLogOf(records[2]), "action")
    /\ output[2].log_type = "allowed"


====
